---- MODULE Spec2Model ----
(***************************************************************************)
(* Session state machine of the Data Mapping page of piso_patrol           *)
(* (src/pages/1_*_Data_Mapping.py): loading a raw table, automatic and    *)
(* manual column mapping with cleaning, the filtered data editor with its  *)
(* "Save & Update All Changes" button, the stash definitions of Step 4,    *)
(* and "Clear All Data & Start Over"; the classification, totals and       *)
(* cumulative series of the Overview page, the expense total of the        *)
(* Expenses page, and the goal editor and calculate_projection_string of   *)
(* the Stashes page.                                                       *)
(*                                                                         *)
(* Values.  A text is a sequence of one-character strings.  A cell of a    *)
(* table is a tagged tuple: <<"text", t>>, <<"num", n>>, <<"date", d>>     *)
(* with d = <<year, month, day>>, or one of the null markers NaN / NaT.    *)
(* pandas reads an empty CSV field as NaN, so a raw cell is either NaN or  *)
(* a non-empty text.  Amounts are integers (whole currency units).         *)
(* A table is [present, cols, rows]: `present` is FALSE when the key is    *)
(* not in st.session_state; a row is a record over cols plus "idx", the    *)
(* pandas index label the row carries through dropna and filtering.        *)
(***************************************************************************)
EXTENDS Integers, Sequences, FiniteSets, TLC

\* ------------------------------------------------------------------ bounds
MaxRawRows == 2      \* rows of a loaded raw table
MaxEdits == 1        \* editor operations between two saves
MaxSaves == 1        \* presses of "Save & Update All Changes" per session

\* ------------------------------------------------------------------ values
NaN == <<"nan">>
NaT == <<"nat">>
Text(t) == <<"text", t>>
Num(n) == <<"num", n>>
Date(d) == <<"date", d>>

IsNum(v) == v[1] = "num"
IsDate(v) == v[1] = "date"
IsText(v) == v[1] = "text"
isna(v) == v = NaN \/ v = NaT

Absent == [present |-> FALSE, cols |-> {}, rows |-> <<>>]
Table(cols, rows) == [present |-> TRUE, cols |-> cols, rows |-> rows]

\* literals of the source
T_Income == <<"I","n","c","o","m","e">>
T_Expense == <<"E","x","p","e","n","s","e">>
T_Stash == <<"S","t","a","s","h">>
T_DefaultAccount == <<"D","e","f","a","u","l","t"," ","A","c","c","o","u","n","t">>
T_nan == <<"n","a","n">>
T_date == <<"d","a","t","e">>
T_amount == <<"a","m","o","u","n","t">>
T_category == <<"c","a","t","e","g","o","r","y">>
T_type == <<"t","y","p","e">>
T_account == <<"a","c","c","o","u","n","t">>
T_All == <<"A","l","l">>

\* ------------------------------------------------------------ text helpers
UpperChars == <<"A","B","C","D","E","F","G","H","I","J","K","L","M",
                "N","O","P","Q","R","S","T","U","V","W","X","Y","Z">>
LowerChars == <<"a","b","c","d","e","f","g","h","i","j","k","l","m",
                "n","o","p","q","r","s","t","u","v","w","x","y","z">>

\* str.lower() on one character
LowerChar(c) ==
  IF \E i \in 1..26 : UpperChars[i] = c
  THEN LowerChars[CHOOSE i \in 1..26 : UpperChars[i] = c]
  ELSE c

\* str.lower()
lower(t) == [i \in 1..Len(t) |-> LowerChar(t[i])]

IsSpace(c) == c = " "

RECURSIVE lstrip(_)
lstrip(t) == IF t # <<>> /\ IsSpace(Head(t)) THEN lstrip(Tail(t)) ELSE t

RECURSIVE rstrip(_)
rstrip(t) ==
  IF t # <<>> /\ IsSpace(t[Len(t)]) THEN rstrip(SubSeq(t, 1, Len(t) - 1)) ELSE t

\* str.strip()
strip(t) == rstrip(lstrip(t))

\* the header comparison without .strip()
NormHeader_NoStrip(c) == lower(c)

\* c.lower().strip() of the header comparisons
NormHeader(c) == strip(lower(c))

DigitChars == <<"0","1","2","3","4","5","6","7","8","9">>

\* str() of a natural number
RECURSIVE DigitsOf(_)
DigitsOf(n) ==
  IF n < 10 THEN <<DigitChars[n + 1]>>
  ELSE DigitsOf(n \div 10) \o <<DigitChars[(n % 10) + 1]>>

\* str() of a float with an integral value: '10.0', '-5.0'.  (A column of
\* dtype int64 gives '10'; pd.to_numeric reads both as the same number.)
FloatText(n) ==
  IF n < 0 THEN <<"-">> \o DigitsOf(0 - n) \o <<".", "0">>
  ELSE DigitsOf(n) \o <<".", "0">>

\* .astype(str) on a cell without the case of a number
astype_str_ObjectOnly(v) == IF IsText(v) THEN v[2] ELSE T_nan

\* .astype(str) on a cell: a text stays, a number becomes its decimal
\* text, NaN becomes the text 'nan'
astype_str(v) ==
  IF IsText(v) THEN v[2] ELSE IF IsNum(v) THEN FloatText(v[2]) ELSE T_nan

\* ------------------------------------------------------- amount coercion
\* .str.replace(r'[,"\$]', '', regex=True)
StripGlyphs(t) == SelectSeq(t, LAMBDA c : c \notin {",", "\"", "$"})

IsDigit(c) == \E i \in 1..10 : DigitChars[i] = c
DigitVal(c) == (CHOOSE i \in 1..10 : DigitChars[i] = c) - 1
AllDigits(t) == t # <<>> /\ \A i \in 1..Len(t) : IsDigit(t[i])

RECURSIVE DigitsValue(_, _)
DigitsValue(t, acc) ==
  IF t = <<>> THEN acc ELSE DigitsValue(Tail(t), 10 * acc + DigitVal(Head(t)))

\* a literal without its fraction of zeros: '10.0' gives '10'
IntegralDigits(t) ==
  LET dots == { k \in 1..Len(t) : t[k] = "." }
  IN IF /\ Cardinality(dots) = 1
        /\ \A k \in dots : /\ k < Len(t)
                            /\ \A j \in (k + 1)..Len(t) : t[j] = "0"
     THEN SubSeq(t, 1, (CHOOSE k \in dots : TRUE) - 1)
     ELSE t

\* the literals pd.to_numeric accepts that are modelled: optional sign,
\* digits, and an optional fraction of zeros; any other text (also 'nan',
\* the astype(str) image of a missing cell) is coerced to NaN by
\* errors='coerce'
ParseNumber(t) ==
  LET body == IntegralDigits(IF t # <<>> /\ Head(t) \in {"-", "+"}
                             THEN Tail(t) ELSE t)
  IN IF t # <<>> /\ Head(t) = "-"
     THEN IF AllDigits(body) THEN Num(0 - DigitsValue(body, 0)) ELSE NaN
     ELSE IF AllDigits(body) THEN Num(DigitsValue(body, 0)) ELSE NaN

\* pd.to_numeric(v, errors='coerce') on one value
to_numeric(v) ==
  IF IsNum(v) THEN v ELSE IF IsText(v) THEN ParseNumber(v[2]) ELSE NaN

\* pd.to_numeric(col.astype(str).str.replace(r'[,"\$]', ''), errors='coerce')
CleanAmount(v) == to_numeric(Text(StripGlyphs(astype_str(v))))

\* abs() left out: the sign of the raw amount stays in the table
abs_Signed(v) == v

\* Series.abs() on one value
abs(v) == IF IsNum(v) /\ v[2] < 0 THEN Num(0 - v[2]) ELSE v

\* --------------------------------------------------------- date coercion
DaysIn(y, m) ==
  IF m \in {4, 6, 9, 11} THEN 30
  ELSE IF m = 2
  THEN IF (y % 4 = 0 /\ y % 100 # 0) \/ y % 400 = 0 THEN 29 ELSE 28
  ELSE 31

ValidYMD(y, m, d) == m \in 1..12 /\ d \in 1..DaysIn(y, m)

\* the two layouts of the permissive parser that are modelled:
\* YYYY-MM-DD and MM/DD/YYYY; every other text is unparsable
ParseDate(t) ==
  IF Len(t) = 10 /\ t[5] = "-" /\ t[8] = "-"
     /\ AllDigits(SubSeq(t, 1, 4)) /\ AllDigits(SubSeq(t, 6, 7))
     /\ AllDigits(SubSeq(t, 9, 10))
  THEN LET y == DigitsValue(SubSeq(t, 1, 4), 0)
           m == DigitsValue(SubSeq(t, 6, 7), 0)
           d == DigitsValue(SubSeq(t, 9, 10), 0)
       IN IF ValidYMD(y, m, d) THEN Date(<<y, m, d>>) ELSE NaT
  ELSE IF Len(t) = 10 /\ t[3] = "/" /\ t[6] = "/"
     /\ AllDigits(SubSeq(t, 1, 2)) /\ AllDigits(SubSeq(t, 4, 5))
     /\ AllDigits(SubSeq(t, 7, 10))
  THEN LET y == DigitsValue(SubSeq(t, 7, 10), 0)
           m == DigitsValue(SubSeq(t, 1, 2), 0)
           d == DigitsValue(SubSeq(t, 4, 5), 0)
       IN IF ValidYMD(y, m, d) THEN Date(<<y, m, d>>) ELSE NaT
  ELSE NaT

\* pd.to_datetime(v, errors='coerce') on one value
to_datetime(v) ==
  IF IsDate(v) THEN v ELSE IF IsText(v) THEN ParseDate(v[2]) ELSE NaT

\* Series.fillna(default) on one value
fillna(v, default) == IF isna(v) THEN default ELSE v

\* ------------------------------------------------------------- raw tables
\* A raw table is [present, columns, rows]: columns is the header row (a
\* sequence of texts), rows a sequence of rows, each a sequence of raw cells
\* aligned with columns.
NoRaw == [present |-> FALSE, columns |-> <<>>, rows |-> <<>>]

H_Date == <<"D","a","t","e">>
H_date_sp == <<" ","d","a","t","e"," ">>
H_When == <<"W","h","e","n">>
H_Amount == <<"A","m","o","u","n","t">>
H_AMOUNT == <<"A","M","O","U","N","T">>
H_Category == <<"C","a","t","e","g","o","r","y">>
H_Type == <<"T","y","p","e">>
H_Account == <<"A","c","c","o","u","n","t">>

\* header rows offered to the loader: all standard names; the three required
\* names only, in other case and padding; a date column with another name
Headers ==
  { <<H_Date, H_Amount, H_Category, H_Type, H_Account>>,
    <<H_date_sp, H_AMOUNT, H_Category>>,
    <<H_When, H_Amount, H_Category, H_Type>> }

D_Jan5 == Text(<<"2","0","2","4","-","0","1","-","0","5">>)
D_Mar1 == Text(<<"2","0","2","4","-","0","3","-","0","1">>)
D_Jan5_us == Text(<<"0","1","/","0","5","/","2","0","2","4">>)
D_soon == Text(<<"s","o","o","n">>)
A_10 == Text(<<"1","0">>)
A_m5 == Text(<<"-","5">>)
A_0 == Text(<<"0">>)
A_glyph == Text(<<"$","1",",","2","0","0">>)
A_abc == Text(<<"a","b","c">>)
C_Food == Text(<<"F","o","o","d">>)
C_Food_sp == Text(<<" ","F","o","o","d"," ">>)
C_Rent == Text(<<"R","e","n","t">>)
K_Bank == Text(<<"B","a","n","k">>)

\* raw rows offered to the loader, as <<date, amount, category, type,
\* account>> cells; a header row with fewer columns takes a prefix
RowPool ==
  << <<D_Jan5, A_10, C_Food_sp, NaN, NaN>>,
     <<D_Mar1, A_m5, C_Rent, Text(T_Expense), K_Bank>>,
     <<D_soon, A_0, C_Food, Text(T_Income), NaN>>,
     <<D_Jan5_us, A_glyph, NaN, Text(T_Income), K_Bank>>,
     <<D_Jan5, A_abc, C_Rent, NaN, K_Bank>>,
     <<D_Mar1, A_0, C_Food, NaN, NaN>> >>

MakeRaw(h, rs) ==
  [present |-> TRUE, columns |-> h,
   rows |-> [i \in 1..Len(rs) |-> SubSeq(rs[i], 1, Len(h))]]

\* the rows of the pool whose positions are in S, in pool order
PoolRows(S) ==
  LET picked == SelectSeq([i \in 1..Len(RowPool) |-> i], LAMBDA i : i \in S)
  IN [k \in 1..Len(picked) |-> RowPool[picked[k]]]

\* the raw tables a load can deliver: every header row with one to
\* MaxRawRows distinct rows of the pool
RawTables ==
  { MakeRaw(h, PoolRows(S)) :
      h \in Headers,
      S \in { X \in SUBSET (1..Len(RowPool)) :
                Cardinality(X) \in 1..MaxRawRows } }

\* ------------------------------------------------------------ data frames
\* the mask without its Amount half
InvalidMask_DateOnly(r) == isna(r.Date)

\* frame['Date'].isna() | frame['Amount'].isna()
InvalidMask(r) == isna(r.Date) \/ isna(r.Amount)

\* the rows DataFrame.dropna(subset=['Date', 'Amount']) keeps
DropnaKeeps(r) == ~isna(r.Date) /\ ~isna(r.Amount)

\* the comparison written x > 0: a zero amount becomes an Expense
TypeFromSign_Strict(x) ==
  IF IsNum(x) /\ x[2] > 0 THEN Text(T_Income) ELSE Text(T_Expense)

\* lambda x: 'Income' if x >= 0 else 'Expense'   (NaN >= 0 is False)
TypeFromSign(x) ==
  IF IsNum(x) /\ x[2] >= 0 THEN Text(T_Income) ELSE Text(T_Expense)

\* missing Type cells filled with 'Income'
FillType_Income(v) == fillna(v, Text(T_Income))

\* .fillna('Expense') of the Type column
FillType(v) == fillna(v, Text(T_Expense))

\* the Account column taken without fillna
FillAccount_Raw(v) == v

\* .fillna('Default Account') of the Account column
FillAccount(v) == fillna(v, Text(T_DefaultAccount))

\* .astype(str).str.strip() of the Category column
CleanCategory(v) == Text(strip(astype_str(v)))

\* -------------------------------------------------------- schema mapping
\* A mapping assigns to each canonical field the position of a raw column;
\* 0 stands for "no column" (StopIteration, None or the 'None' option).
CanonicalCols == {"Date", "Amount", "Category", "Type", "Account"}
NoMapping == [date |-> 0, amount |-> 0, category |-> 0, type |-> 0, account |-> 0]

\* next((c for c in raw_df.columns if c.lower().strip() == name), None)
FindCol(columns, name) ==
  LET hits == { i \in 1..Len(columns) : NormHeader(columns[i]) = name }
  IN IF hits = {} THEN 0 ELSE CHOOSE i \in hits : \A j \in hits : i <= j

\* the five header look-ups of the automatic path
AutoMapping(raw) ==
  [date |-> FindCol(raw.columns, T_date),
   amount |-> FindCol(raw.columns, T_amount),
   category |-> FindCol(raw.columns, T_category),
   type |-> FindCol(raw.columns, T_type),
   account |-> FindCol(raw.columns, T_account)]

\* the three required next(...) calls raise no StopIteration
AutoFound(m) == m.date # 0 /\ m.amount # 0 /\ m.category # 0

\* sub in t
Contains(sub, t) ==
  \E k \in 0..(Len(t) - Len(sub)) : SubSeq(t, k + 1, k + Len(sub)) = sub

\* next((c for c in available_columns if sub in c.lower()), default)
GuessCol(columns, sub, default) ==
  LET hits == { i \in 1..Len(columns) : Contains(sub, lower(columns[i])) }
  IN IF hits = {} THEN default ELSE CHOOSE i \in hits : \A j \in hits : i <= j

\* the selections offered in the manual tools that are explored: the
\* pre-selected guess of every field, and for the two optional fields also
\* the 'None' option
MappingChoices(raw) ==
  { [date |-> GuessCol(raw.columns, T_date, 1),
     amount |-> GuessCol(raw.columns, T_amount, 1),
     category |-> GuessCol(raw.columns, T_category, 1),
     type |-> t, account |-> a] :
      t \in {GuessCol(raw.columns, T_type, 0), 0},
      a \in {GuessCol(raw.columns, T_account, 0), 0} }

\* ----------------------------------------------------- automatic cleaning
\* row i of processed_df after the coercions of the automatic path and
\* before rows are dropped
AutoRow(raw, m, i) ==
  LET cells == raw.rows[i]
  IN [idx |-> i,
      Date |-> to_datetime(cells[m.date]),
      Amount |-> abs(CleanAmount(cells[m.amount])),
      Category |-> cells[m.category],
      Type |-> IF m.type # 0 THEN FillType(cells[m.type])
               ELSE FillType(TypeFromSign(CleanAmount(cells[m.amount]))),
      Account |-> IF m.account # 0 THEN FillAccount(cells[m.account])
                  ELSE Text(T_DefaultAccount)]

AutoFrame(raw, m) == [i \in 1..Len(raw.rows) |-> AutoRow(raw, m, i)]

\* invalid_rows of the automatic path
AutoInvalid(raw, m) ==
  Table(CanonicalCols, SelectSeq(AutoFrame(raw, m), InvalidMask))

\* processed_df of the automatic path
AutoProcessed(raw, m) ==
  LET kept == SelectSeq(AutoFrame(raw, m), DropnaKeeps)
  IN Table(CanonicalCols,
           [k \in 1..Len(kept) |->
              [kept[k] EXCEPT !.Category = CleanCategory(kept[k].Category)]])

\* -------------------------------------------------------- manual cleaning
WorkingCols(m) ==
  {"Date", "Amount", "Category"}
    \cup (IF m.type # 0 THEN {"Type"} ELSE {})
    \cup (IF m.account # 0 THEN {"Account"} ELSE {})

\* row i of working_df after the two coercions
WorkingRow(raw, m, i) ==
  LET cells == raw.rows[i]
  IN [c \in WorkingCols(m) \cup {"idx"} |->
        CASE c = "idx" -> i
          [] c = "Date" -> to_datetime(cells[m.date])
          [] c = "Amount" -> CleanAmount(cells[m.amount])
          [] c = "Category" -> cells[m.category]
          [] c = "Type" -> cells[m.type]
          [] c = "Account" -> cells[m.account]]

WorkingFrame(raw, m) == [i \in 1..Len(raw.rows) |-> WorkingRow(raw, m, i)]

\* invalid_rows of the manual path
ManualInvalid(raw, m) ==
  Table(WorkingCols(m), SelectSeq(WorkingFrame(raw, m), InvalidMask))

\* one row of processed_df after the post-processing of the manual path
FinishRow(m, w) ==
  [idx |-> w.idx,
   Date |-> w.Date,
   Amount |-> abs(w.Amount),
   Category |-> CleanCategory(w.Category),
   Type |-> Text(astype_str(FillType(IF m.type # 0 THEN w.Type
                                     ELSE TypeFromSign(w.Amount)))),
   Account |-> Text(astype_str(FillAccount(IF m.account # 0 THEN w.Account
                                           ELSE Text(T_DefaultAccount))))]

\* processed_df of the manual path
ManualProcessed(raw, m) ==
  LET kept == SelectSeq(WorkingFrame(raw, m), DropnaKeeps)
  IN Table(CanonicalCols, [k \in 1..Len(kept) |-> FinishRow(m, kept[k])])

\* ------------------------------------------------------------ data editor
\* sorted(processed_data[col].unique()), as a set
UniqueOf(frame, col) == { frame.rows[k][col] : k \in 1..Len(frame.rows) }

\* the two masks applied when a selector is not on 'All'
MatchesFilter(r, fc, ft) ==
  /\ (fc # T_All => r.Category = Text(fc))
  /\ (ft # T_All => r.Type = Text(ft))

\* df_to_edit: the copy of processed_data restricted by the two selectors
FilterFrame(frame, fc, ft) ==
  Table(frame.cols, SelectSeq(frame.rows, LAMBDA r : MatchesFilter(r, fc, ft)))

\* values of the 'Filter by Category' / 'Filter by Type' selectors
FilterOptions(frame, col) ==
  {T_All} \cup { v[2] : v \in { w \in UniqueOf(frame, col) : IsText(w) } }

\* a selector keeps its value across a rerun only while its option list is
\* the same; otherwise it is back on its first option, 'All'
KeptFilter(sel, old, new, col) ==
  IF old.present /\ FilterOptions(old, col) = FilterOptions(new, col)
  THEN sel ELSE T_All

\* values typed into the editor that are explored.  A cleared Date or Amount
\* cell comes back as a null; NumberColumn has no min_value
EditDates == {Date(<<2024, 3, 1>>), NaN}
EditAmounts == {Num(7), Num(0 - 5), NaN}
EditTypes == {Text(T_Income), Text(T_Expense), Text(T_Stash)}

\* index label given to a row added in the editor
NewIdx(frame, view) ==
  LET used == {0} \cup { frame.rows[k].idx : k \in 1..Len(frame.rows) }
                  \cup { view.rows[k].idx : k \in 1..Len(view.rows) }
  IN 1 + CHOOSE i \in used : \A j \in used : j <= i

\* the re-conversion of the saved frame:
\*   ['Date'] = pd.to_datetime(..., errors='coerce')
\*   ['Amount'] = pd.to_numeric(..., errors='coerce')
Reconvert(r) ==
  [r EXCEPT !.Date = to_datetime(r.Date), !.Amount = to_numeric(r.Amount)]

\* st.session_state.processed_data = edited_df, then the re-conversion
SavedFrame(view) ==
  Table(view.cols, [k \in 1..Len(view.rows) |-> Reconvert(view.rows[k])])

\* ------------------------------------------------------------------ state
VARIABLES
  raw_data,        \* st.session_state.raw_data
  processed_data,  \* st.session_state.processed_data, the canonical table
  auto_processed,  \* st.session_state.auto_processed: "absent", "False", "True"
  invalid_rows,    \* st.session_state.invalid_rows
  mapping,         \* field -> column assignment used by the last processing
  removed_rows,    \* rows listed under "Show Removed Rows" by the last handler
  notice,          \* status message issued by the last handler
  filter_cat,      \* 'Filter by Category' selector
  filter_type,     \* 'Filter by Type' selector
  edited_df,       \* value returned by st.data_editor
  edits,           \* editor operations since the editor was last reset
  saves,           \* presses of "Save & Update All Changes"
  stash_goals,     \* st.session_state.stash_goals: key -> goal amount
  stash_emojis,    \* st.session_state.stash_emojis: key -> emoji
  ov,              \* what the Overview page computed on its last render
  ov_prev,         \* the buckets of the Overview render before the last
  ex,              \* what the Expenses page computed on its last render
  pj_df,           \* all_time_df handed to calculate_projection_string
  pj_goal,         \* goal_amount handed to calculate_projection_string
  pj_out,          \* what calculate_projection_string returned
  in_df,           \* the frame the Automated Insights sections read
  mom_out,         \* the month-over-month comparison of the Expenses page
  ytd_out          \* the YTD insight rows of the Income page

vars == <<raw_data, processed_data, auto_processed, invalid_rows, mapping,
          removed_rows, notice, filter_cat, filter_type, edited_df, edits,
          saves, stash_goals, stash_emojis, ov, ov_prev, ex, pj_df, pj_goal,
          pj_out, in_df, mom_out, ytd_out>>

\* state of the Automated Insights sections
insightVars == <<in_df, mom_out, ytd_out>>

\* state of the pages other than Data Mapping
otherPages == <<ov, ov_prev, ex, pj_df, pj_goal, pj_out, insightVars>>

\* a dict without keys; a missing session key reads as one
\* (st.session_state.get('stash_goals', {}))
EmptyDict == <<>>

\* a page that has not computed anything
NoView == [shown |-> FALSE]
NoProjection ==
  [kind |-> "none", text |-> <<>>, num_months |-> 0, months_remaining |-> 0]

\* the buckets of a view: the index labels under each of the three masks
NoBuckets == [shown |-> FALSE, income |-> {}, expense |-> {}, stash |-> {}]
BucketsOf(view) ==
  IF view.shown
  THEN [shown |-> TRUE, income |-> view.income, expense |-> view.expense,
        stash |-> view.stash]
  ELSE NoBuckets

OtherPagesInit ==
  /\ ov = NoView
  /\ ov_prev = NoBuckets
  /\ ex = NoView
  /\ pj_df = <<>>
  /\ pj_goal = 0
  /\ pj_out = NoProjection
  /\ in_df = <<>>
  /\ mom_out = NoView
  /\ ytd_out = NoView

\* the session before the first load
SessionInit ==
  /\ raw_data = NoRaw
  /\ processed_data = Absent
  /\ auto_processed = "absent"
  /\ invalid_rows = Absent
  /\ mapping = NoMapping
  /\ removed_rows = Absent
  /\ notice = "none"
  /\ filter_cat = T_All
  /\ filter_type = T_All
  /\ edited_df = Absent
  /\ edits = 0
  /\ saves = 0
  /\ stash_goals = EmptyDict
  /\ stash_emojis = EmptyDict

Init == SessionInit /\ OtherPagesInit

\* the script gets past "Display Auto-Process Results": with auto_processed
\* True it reads st.session_state.invalid_rows, which raises when the key is
\* not there, and nothing below that line is rendered
PageRenders == ~(auto_processed = "True" /\ ~invalid_rows.present)

\* the editor and its selectors after a handler that left new_pd as the
\* canonical table and reran the script
ResetEditor(new_pd) ==
  LET fc == KeptFilter(filter_cat, processed_data, new_pd, "Category")
      ft == KeptFilter(filter_type, processed_data, new_pd, "Type")
  IN /\ filter_cat' = (IF new_pd.present THEN fc ELSE T_All)
     /\ filter_type' = (IF new_pd.present THEN ft ELSE T_All)
     /\ edited_df' = (IF new_pd.present THEN FilterFrame(new_pd, fc, ft)
                      ELSE Absent)
     /\ edits' = 0

\* load_gsheet_data: None when the URL has no /d/<id> segment or when the
\* request or the parse raised (fetched is then NoRaw), else the table read
load_gsheet_data(has_id, fetched) == IF ~has_id THEN NoRaw ELSE fetched

\* the raw table stored although the load returned None
StoreRaw_Unchecked(df_raw) ==
  /\ raw_data' = df_raw
  /\ processed_data' = Absent
  /\ auto_processed' = "absent"
  /\ ResetEditor(Absent)

\* "If new data was loaded, put it in session state"
StoreRaw(df_raw) ==
  IF df_raw.present
  THEN /\ raw_data' = df_raw
       /\ processed_data' = Absent
       /\ auto_processed' = "absent"
       /\ ResetEditor(Absent)
  ELSE UNCHANGED <<raw_data, processed_data, auto_processed, filter_cat,
                   filter_type, edited_df, edits>>

\* a load that returned a table
LoadData(tables) ==
  \E t \in tables :
    /\ StoreRaw(t)
    /\ removed_rows' = Absent
    /\ notice' = "loaded"
    /\ UNCHANGED <<invalid_rows, mapping, saves, stash_goals, stash_emojis>>
    /\ UNCHANGED otherPages

\* the automatic path run by every script run that finds raw_data, whether
\* auto_processed is in the session or not
AutoProcess_EveryRun ==
  /\ raw_data.present
  /\ LET m == AutoMapping(raw_data)
     IN IF AutoFound(m)
        THEN /\ processed_data' = AutoProcessed(raw_data, m)
             /\ invalid_rows' = AutoInvalid(raw_data, m)
             /\ removed_rows' = AutoInvalid(raw_data, m)
             /\ auto_processed' = "True"
             /\ mapping' = m
             /\ notice' = "auto_processed"
             /\ ResetEditor(AutoProcessed(raw_data, m))
        ELSE /\ auto_processed' = "False"
             /\ notice' = "map_manually"
             /\ removed_rows' = Absent
             /\ UNCHANGED <<processed_data, invalid_rows, mapping,
                            filter_cat, filter_type, edited_df, edits>>
  /\ UNCHANGED <<raw_data, saves, stash_goals, stash_emojis>>
  /\ UNCHANGED otherPages

\* "Auto-Processing Attempt", made by the first run of the script that
\* finds raw_data without auto_processed
AutoProcess ==
  /\ raw_data.present
  /\ auto_processed = "absent"
  /\ LET m == AutoMapping(raw_data)
     IN IF AutoFound(m)
        THEN /\ processed_data' = AutoProcessed(raw_data, m)
             /\ invalid_rows' = AutoInvalid(raw_data, m)
             /\ removed_rows' = AutoInvalid(raw_data, m)
             /\ auto_processed' = "True"
             /\ mapping' = m
             /\ notice' = "auto_processed"
             /\ ResetEditor(AutoProcessed(raw_data, m))
        ELSE /\ auto_processed' = "False"
             /\ notice' = "map_manually"
             /\ removed_rows' = Absent
             /\ UNCHANGED <<processed_data, invalid_rows, mapping,
                            filter_cat, filter_type, edited_df, edits>>
  /\ UNCHANGED <<raw_data, saves, stash_goals, stash_emojis>>
  /\ UNCHANGED otherPages

\* "Process & Save Mapped Data"
ManualProcess ==
  /\ raw_data.present
  /\ auto_processed # "absent"
  /\ PageRenders
  /\ \E m \in MappingChoices(raw_data) :
       /\ processed_data' = ManualProcessed(raw_data, m)
       /\ removed_rows' = ManualInvalid(raw_data, m)
       /\ auto_processed' = "True"
       /\ mapping' = m
       /\ notice' = "processed"
       /\ ResetEditor(ManualProcessed(raw_data, m))
  /\ UNCHANGED <<raw_data, invalid_rows, saves, stash_goals, stash_emojis>>
  /\ UNCHANGED otherPages

\* the selectors, the editor and the save button of Step 3 are on the page
EditorShown == raw_data.present /\ processed_data.present /\ PageRenders

\* a change of 'Filter by Category' or 'Filter by Type'; the editor is
\* handed the newly filtered copy and unsaved edits are gone
SetFilter ==
  /\ EditorShown
  /\ \E fc \in FilterOptions(processed_data, "Category"),
        ft \in FilterOptions(processed_data, "Type") :
       /\ <<fc, ft>> # <<filter_cat, filter_type>>
       /\ filter_cat' = fc
       /\ filter_type' = ft
       /\ edited_df' = FilterFrame(processed_data, fc, ft)
  /\ edits' = 0
  /\ notice' = "none"
  /\ removed_rows' = Absent
  /\ UNCHANGED <<raw_data, processed_data, auto_processed, invalid_rows,
                 mapping, saves, stash_goals, stash_emojis>>
  /\ UNCHANGED otherPages

EditAllowed == EditorShown /\ edits < MaxEdits /\ saves < MaxSaves

\* the user changes one cell of the editor
EditCell ==
  /\ EditAllowed
  /\ \E k \in 1..Len(edited_df.rows) :
       \E col \in {"Date", "Amount", "Category", "Type"} :
         \E v \in (CASE col = "Date" -> EditDates
                     [] col = "Amount" -> EditAmounts
                     [] col = "Category" -> UniqueOf(processed_data, "Category")
                     [] col = "Type" -> EditTypes) :
           /\ edited_df.rows[k][col] # v
           /\ edited_df' = [edited_df EXCEPT !.rows[k][col] = v]
  /\ edits' = edits + 1
  /\ notice' = "none"
  /\ removed_rows' = Absent
  /\ UNCHANGED <<raw_data, processed_data, auto_processed, invalid_rows,
                 mapping, filter_cat, filter_type, saves, stash_goals,
                 stash_emojis>>
  /\ UNCHANGED otherPages

\* the user appends a row in the editor (num_rows="dynamic"); Category and
\* Type are required, the other cells may stay empty
AddRow ==
  /\ EditAllowed
  /\ \E d \in EditDates, a \in EditAmounts, ty \in EditTypes :
       \E c \in UniqueOf(processed_data, "Category") :
         edited_df' =
           [edited_df EXCEPT !.rows =
              Append(@, [idx |-> NewIdx(processed_data, edited_df),
                         Date |-> d, Amount |-> a, Category |-> c,
                         Type |-> ty, Account |-> NaN])]
  /\ edits' = edits + 1
  /\ notice' = "none"
  /\ removed_rows' = Absent
  /\ UNCHANGED <<raw_data, processed_data, auto_processed, invalid_rows,
                 mapping, filter_cat, filter_type, saves, stash_goals,
                 stash_emojis>>
  /\ UNCHANGED otherPages

\* the user deletes a row in the editor
DeleteRow ==
  /\ EditAllowed
  /\ \E k \in 1..Len(edited_df.rows) :
       edited_df' =
         [edited_df EXCEPT !.rows =
            SubSeq(@, 1, k - 1) \o SubSeq(@, k + 1, Len(@))]
  /\ edits' = edits + 1
  /\ notice' = "none"
  /\ removed_rows' = Absent
  /\ UNCHANGED <<raw_data, processed_data, auto_processed, invalid_rows,
                 mapping, filter_cat, filter_type, saves, stash_goals,
                 stash_emojis>>
  /\ UNCHANGED otherPages

\* "Save & Update All Changes": of the assignments to processed_data in the
\* handler the last one, edited_df, stands; then Date and Amount are
\* re-converted, success is reported and the script reruns
SaveEdits ==
  /\ EditorShown
  /\ saves < MaxSaves
  /\ processed_data' = SavedFrame(edited_df)
  /\ notice' = "saved"
  /\ removed_rows' = Absent
  /\ saves' = saves + 1
  /\ ResetEditor(SavedFrame(edited_df))
  /\ UNCHANGED <<raw_data, auto_processed, invalid_rows, mapping,
                 stash_goals, stash_emojis>>
  /\ UNCHANGED otherPages

\* Step 4: the categories of the Expense and Stash rows, offered as the
\* options of "Select categories to track as stashes:"
all_expense_categories(frame) ==
  { frame.rows[k].Category :
      k \in { j \in 1..Len(frame.rows) :
                frame.rows[j].Type \in {Text(T_Expense), Text(T_Stash)} } }

\* emoji_options of Step 4, by name
emoji_options ==
  <<"bank", "honey_pot", "money_bag", "airplane", "car", "house",
    "graduation_cap", "gift", "laptop">>

\* amounts typed into "Goal for ..."
GoalInputs == {0, 500}

\* dict.get(k, default)
get(dict, k, default) == IF k \in DOMAIN dict THEN dict[k] ELSE default

\* Step 4 gets as far as its widgets: there are options, and every default
\* of the multiselect (a key of stash_goals) is one of them
StashEditorShown ==
  /\ raw_data.present
  /\ processed_data.present
  /\ PageRenders
  /\ all_expense_categories(processed_data) # {}
  /\ DOMAIN stash_goals \subseteq all_expense_categories(processed_data)

\* the two dicts cleared and rebuilt from the widgets of Step 4
RebuildStashes(selected_stashes, goal_of, emoji_of) ==
  /\ stash_goals' = [k \in selected_stashes |-> goal_of[k]]
  /\ stash_emojis' = [k \in selected_stashes |-> emoji_of[k]]

\* what a handler of Step 4 leaves alone
StashStepFrame ==
  /\ notice' = "none"
  /\ removed_rows' = Absent
  /\ UNCHANGED <<raw_data, processed_data, auto_processed, invalid_rows,
                 mapping, filter_cat, filter_type, edited_df, edits, saves>>
  /\ UNCHANGED otherPages

\* the user changes the selection of the multiselect; a newly selected
\* category starts with goal 0.0 and the first emoji
SelectStashes ==
  /\ StashEditorShown
  /\ \E selected_stashes \in SUBSET all_expense_categories(processed_data) :
       /\ selected_stashes # DOMAIN stash_goals
       /\ RebuildStashes(selected_stashes,
                         [k \in selected_stashes |-> get(stash_goals, k, 0)],
                         [k \in selected_stashes |->
                            get(stash_emojis, k, emoji_options[1])])
  /\ StashStepFrame

\* the user types a goal amount for a selected category
SetGoal ==
  /\ StashEditorShown
  /\ \E k \in DOMAIN stash_goals, g \in GoalInputs :
       /\ g # stash_goals[k]
       /\ RebuildStashes(DOMAIN stash_goals,
                         [stash_goals EXCEPT ![k] = g], stash_emojis)
  /\ StashStepFrame

\* the user picks an emoji for a selected category
SetEmoji ==
  /\ StashEditorShown
  /\ \E k \in DOMAIN stash_goals, i \in 1..Len(emoji_options) :
       /\ emoji_options[i] # stash_emojis[k]
       /\ RebuildStashes(DOMAIN stash_goals, stash_goals,
                         [stash_emojis EXCEPT ![k] = emoji_options[i]])
  /\ StashStepFrame

\* the clear button is reached: Step 4 returns before it when the canonical
\* table has no Expense or Stash row, and the multiselect raises when a
\* key of stash_goals is not among its options
ClearShown ==
  /\ raw_data.present
  /\ PageRenders
  /\ processed_data.present =>
       /\ \E k \in 1..Len(processed_data.rows) :
            processed_data.rows[k].Type \in {Text(T_Expense), Text(T_Stash)}
       /\ DOMAIN stash_goals \subseteq all_expense_categories(processed_data)

\* "Clear All Data & Start Over"
ClearAll ==
  /\ ClearShown
  /\ raw_data' = NoRaw
  /\ processed_data' = Absent
  /\ auto_processed' = "absent"
  /\ invalid_rows' = Absent
  /\ removed_rows' = Absent
  /\ notice' = "none"
  /\ stash_goals' = EmptyDict
  /\ stash_emojis' = EmptyDict
  /\ ResetEditor(Absent)
  /\ UNCHANGED <<mapping, saves>>
  /\ UNCHANGED otherPages

\* raw tables loaded in the sessions that go on to edit
EditTables ==
  { MakeRaw(<<H_date_sp, H_AMOUNT, H_Category>>,
            << <<D_Jan5, A_10, C_Food_sp>>, <<D_Mar1, A_m5, C_Rent>>,
               <<D_Mar1, A_0, C_Food>> >>),
    MakeRaw(<<H_When, H_Amount, H_Category, H_Type>>,
            << <<D_Mar1, A_m5, C_Rent, Text(T_Expense)>>,
               <<D_Jan5_us, A_glyph, C_Food, Text(T_Income)>> >>) }

\* a load that returned None: the error is reported by st.error and the run
\* goes on to render the page
LoadFails ==
  /\ ~(raw_data.present /\ auto_processed = "absent")
  /\ \E has_id \in BOOLEAN, fetched \in EditTables \cup {NoRaw} :
       /\ ~load_gsheet_data(has_id, fetched).present
       /\ StoreRaw(load_gsheet_data(has_id, fetched))
  /\ notice' = "load_failed"
  /\ removed_rows' = Absent
  /\ UNCHANGED <<invalid_rows, mapping, saves, stash_goals, stash_emojis>>
  /\ UNCHANGED otherPages

\* ingestion: load, automatic and manual processing, clear
Next ==
  \/ LoadData(RawTables)
  \/ AutoProcess
  \/ ManualProcess
  \/ ClearAll

Spec == Init /\ [][Next]_vars

\* the whole page: ingestion and the data editor
NextEdit ==
  \/ LoadData(EditTables)
  \/ AutoProcess
  \/ ManualProcess
  \/ SetFilter
  \/ EditCell
  \/ AddRow
  \/ DeleteRow
  \/ SaveEdits
  \/ ClearAll

SpecEdit == Init /\ [][NextEdit]_vars

\* the whole page without the editor: loads that succeed or fail, ingestion,
\* the stash definitions of Step 4, clear
NextGoals ==
  \/ LoadData(EditTables)
  \/ LoadFails
  \/ AutoProcess
  \/ ManualProcess
  \/ SelectStashes
  \/ SetGoal
  \/ SetEmoji
  \/ ClearAll

SpecGoals == Init /\ [][NextGoals]_vars

\* --------------------------------------------- analysis pages: operators
\* The Overview, Expenses and Stashes pages read processed_data with the
\* columns Date, Amount, Category, Subcategory, Type, Account, and the keys
\* of stash_goals.

\* order of datetime.date values, as <<year, month, day>>
DateLE(a, b) ==
  \/ a[1] < b[1]
  \/ a[1] = b[1] /\ a[2] < b[2]
  \/ a[1] = b[1] /\ a[2] = b[2] /\ a[3] <= b[3]

\* (df['Date'].dt.date >= start_date) & (df['Date'].dt.date <= end_date);
\* a comparison with NaT is False
date_mask(r, start_date, end_date) ==
  /\ IsDate(r.Date)
  /\ DateLE(start_date, r.Date[2])
  /\ DateLE(r.Date[2], end_date)

\* the stash mask without the goal definitions
stash_mask_TypeOnly(r, stash_subcategories) == r.Type = Text(T_Stash)

\* Type is 'Stash', or Type is 'Expense' and Subcategory is a stash key
stash_mask(r, stash_subcategories) ==
  \/ r.Type = Text(T_Stash)
  \/ r.Type = Text(T_Expense) /\ r.Subcategory \in stash_subcategories

\* the expense mask without the stash exclusion
expense_mask_TypeOnly(r, stash_subcategories) == r.Type = Text(T_Expense)

\* Type is 'Expense' and the row is not a stash
expense_mask(r, stash_subcategories) ==
  r.Type = Text(T_Expense) /\ ~stash_mask(r, stash_subcategories)

income_mask(r) == r.Type = Text(T_Income)

\* the Amount of a row as a summand; sum() skips nulls
AmountOf(r) == IF IsNum(r.Amount) THEN r.Amount[2] ELSE 0

\* df['Amount'].sum()
RECURSIVE sum(_)
sum(rows) == IF rows = <<>> THEN 0 ELSE AmountOf(Head(rows)) + sum(Tail(rows))

\* get_type with the Expense test ahead of the stash test
get_type_ExpenseFirst(row, stash_subcategories_ts) ==
  IF row.Type = Text(T_Income) THEN "Income"
  ELSE IF row.Type = Text(T_Expense) THEN "Expense"
  ELSE IF row.Type = Text(T_Stash) THEN "Stash"
  ELSE "Other"

\* get_type(row) of the cumulative chart
get_type(row, stash_subcategories_ts) ==
  IF row.Type = Text(T_Income) THEN "Income"
  ELSE IF \/ row.Type = Text(T_Stash)
          \/ row.Type = Text(T_Expense)
             /\ row.Subcategory \in stash_subcategories_ts
  THEN "Stash"
  ELSE IF row.Type = Text(T_Expense) THEN "Expense"
  ELSE "Other"

\* one row put into a frame that is sorted by Date, after the rows of the
\* same date
RECURSIVE InsertByDate(_, _)
InsertByDate(r, sorted) ==
  IF sorted = <<>> THEN <<r>>
  ELSE IF DateLE(Head(sorted).Date[2], r.Date[2])
  THEN <<Head(sorted)>> \o InsertByDate(r, Tail(sorted))
  ELSE <<r>> \o sorted

\* sort_values('Date'); rows of one date keep their order
RECURSIVE sort_values(_)
sort_values(rows) ==
  IF rows = <<>> THEN <<>>
  ELSE InsertByDate(rows[Len(rows)], sort_values(SubSeq(rows, 1, Len(rows) - 1)))

\* Series.cumsum() of a column of numbers
RECURSIVE cumsum(_)
cumsum(col) ==
  IF col = <<>> THEN <<>>
  ELSE LET init == cumsum(SubSeq(col, 1, Len(col) - 1))
       IN Append(init, (IF init = <<>> THEN 0 ELSE init[Len(init)]) + col[Len(col)])

\* time_series_df: per row of the sorted frame the three amount columns and
\* the four cumulative columns
TimeSeries(filtered_df, stash_subcategories_ts) ==
  LET ts == sort_values(filtered_df)
      tx(i) == get_type(ts[i], stash_subcategories_ts)
      Col(name) == [i \in 1..Len(ts) |-> IF tx(i) = name THEN AmountOf(ts[i]) ELSE 0]
      ci == cumsum(Col("Income"))
      ce == cumsum(Col("Expense"))
      cs == cumsum(Col("Stash"))
  IN [i \in 1..Len(ts) |->
        [idx |-> ts[i].idx, Tx_Type |-> tx(i),
         Income |-> Col("Income")[i], Expense |-> Col("Expense")[i],
         Stash |-> Col("Stash")[i],
         Cumulative_Income |-> ci[i], Cumulative_Expense |-> ce[i],
         Cumulative_Stash |-> cs[i],
         Cumulative_Total_Savings |-> ci[i] + cs[i] - ce[i]]]

\* index labels of the rows of a frame
Labels(rows) == { rows[k].idx : k \in 1..Len(rows) }

\* the Overview page from "Apply all filters" on: the filtered frame, the
\* three masks, the key metrics and the cumulative chart
Overview(df, stash_subcategories, start_date, end_date, selected_accounts, selected_categories, selected_subcategories) ==
  LET filtered_df ==
        SelectSeq(df, LAMBDA r :
          /\ date_mask(r, start_date, end_date)
          /\ r.Account \in selected_accounts
          /\ r.Category \in selected_categories
          /\ r.Subcategory \in selected_subcategories)
      inc == SelectSeq(filtered_df, income_mask)
      exp == SelectSeq(filtered_df, LAMBDA r : expense_mask(r, stash_subcategories))
      sta == SelectSeq(filtered_df, LAMBDA r : stash_mask(r, stash_subcategories))
  IN IF filtered_df = <<>>
     THEN [shown |-> FALSE]
     ELSE [shown |-> TRUE,
           start_date |-> start_date, end_date |-> end_date,
           selected_accounts |-> selected_accounts,
           selected_categories |-> selected_categories,
           selected_subcategories |-> selected_subcategories,
           stash_subcategories |-> stash_subcategories,
           filtered_df |-> filtered_df,
           income |-> Labels(inc),
           expense |-> Labels(exp),
           stash |-> Labels(sta),
           total_income |-> sum(inc),
           total_expenses |-> sum(exp),
           total_stashed |-> sum(sta),
           net_savings |-> sum(inc) + sum(sta) - sum(exp),
           time_series_df |-> TimeSeries(filtered_df, stash_subcategories)]

\* the Expenses page down to "Expense Metrics": the frame filtered by date,
\* account, category and Type, and its total
Expenses(df, start_date, end_date, selected_accounts, selected_categories) ==
  LET filtered_df ==
        SelectSeq(df, LAMBDA r :
          /\ date_mask(r, start_date, end_date)
          /\ r.Account \in selected_accounts
          /\ r.Category \in selected_categories
          /\ r.Type = Text(T_Expense))
  IN [shown |-> TRUE,
      start_date |-> start_date, end_date |-> end_date,
      selected_accounts |-> selected_accounts,
      selected_categories |-> selected_categories,
      expense |-> Labels(filtered_df),
      has_total |-> filtered_df # <<>>,
      total_expenses |-> sum(filtered_df)]

\* ------------------------------------------------ analysis pages: inputs
MaxViewRows == 2     \* rows of a canonical table read by the analysis pages

AnalysisCols ==
  {"Date", "Amount", "Category", "Subcategory", "Type", "Account"}

C_Pay == Text(<<"P","a","y">>)
S_Trip == Text(<<"T","r","i","p">>)
S_Meal == Text(<<"M","e","a","l">>)
Ty_Transfer == Text(<<"T","r","a","n","s","f","e","r">>)

\* canonical rows read by the analysis pages, as <<date, amount, category,
\* subcategory, type, account>>
ViewPool ==
  << <<Date(<<2024, 1, 5>>), Num(100), C_Pay, C_Pay, Text(T_Income), K_Bank>>,
     <<Date(<<2024, 3, 1>>), Num(30), C_Food, S_Trip, Text(T_Expense), K_Bank>>,
     <<Date(<<2024, 1, 5>>), Num(20), C_Food, S_Meal, Text(T_Expense),
       Text(T_DefaultAccount)>>,
     <<Date(<<2024, 3, 1>>), Num(50), C_Rent, S_Trip, Text(T_Stash), K_Bank>>,
     <<Date(<<2024, 2, 10>>), Num(7), C_Rent, S_Trip, Ty_Transfer, K_Bank>>,
     <<Date(<<2024, 3, 1>>), Num(40), C_Rent, S_Meal, Text(T_Expense),
       Text(T_DefaultAccount)>> >>

\* the canonical table made of the pool rows whose positions are in S
ViewTable(S) ==
  LET picked == SelectSeq([i \in 1..Len(ViewPool) |-> i], LAMBDA i : i \in S)
  IN Table(AnalysisCols,
           [k \in 1..Len(picked) |->
              [idx |-> picked[k],
               Date |-> ViewPool[picked[k]][1],
               Amount |-> ViewPool[picked[k]][2],
               Category |-> ViewPool[picked[k]][3],
               Subcategory |-> ViewPool[picked[k]][4],
               Type |-> ViewPool[picked[k]][5],
               Account |-> ViewPool[picked[k]][6]]])

AnalysisTables ==
  { ViewTable(S) : S \in { T \in SUBSET (1..Len(ViewPool)) :
                             Cardinality(T) \in 1..MaxViewRows } }

\* date ranges of the pages' date controls on 2024-03-31: the year or
\* quarter to date, and the month to date
DateRanges ==
  { << <<2024, 1, 1>>, <<2024, 3, 31>> >>,
    << <<2024, 3, 1>>, <<2024, 3, 31>> >> }

\* ----------------------------------------------- analysis pages: actions
\* the in-place conversion followed by a drop of the rows without a Date
EnsureDatetime_Dropna(frame) ==
  [frame EXCEPT !.rows =
     SelectSeq(frame.rows, LAMBDA r : ~isna(to_datetime(r.Date)))]

\* df['Date'] = pd.to_datetime(df['Date'], errors='coerce') on the frame
\* held in the session
EnsureDatetime(frame) ==
  [frame EXCEPT !.rows =
     [k \in 1..Len(frame.rows) |->
        [frame.rows[k] EXCEPT !.Date = to_datetime(frame.rows[k].Date)]]]

\* an analysis page gets past its "no data" guard and finds its columns
PageHasData ==
  /\ processed_data.present
  /\ processed_data.rows # <<>>
  /\ AnalysisCols \subseteq processed_data.cols

\* what a render of an analysis page leaves alone
RenderFrame ==
  /\ processed_data' = EnsureDatetime(processed_data)
  /\ UNCHANGED <<raw_data, auto_processed, invalid_rows, mapping,
                 removed_rows, notice, filter_cat, filter_type, edited_df,
                 edits, saves, stash_goals, stash_emojis, pj_df, pj_goal,
                 pj_out, insightVars>>

\* a render of the Overview page.  The account and subcategory selectors
\* are left on their defaults, the category selector takes any selection.
OverviewRender ==
  /\ PageHasData
  /\ \E range \in DateRanges :
       LET df == SelectSeq(processed_data.rows,
                           LAMBDA r : date_mask(r, range[1], range[2]))
           all_accounts == { df[k].Account : k \in 1..Len(df) }
           all_categories == { df[k].Category : k \in 1..Len(df) }
       IN \E selected_categories \in SUBSET all_categories :
            LET available_subcategories ==
                  { df[k].Subcategory :
                      k \in { j \in 1..Len(df) :
                                \/ selected_categories = {}
                                \/ df[j].Category \in selected_categories } }
            IN ov' = Overview(df, DOMAIN stash_goals, range[1], range[2],
                              all_accounts, selected_categories,
                              available_subcategories)
  /\ ov_prev' = BucketsOf(ov)
  /\ ex' = ex
  /\ RenderFrame

\* a render of the Expenses page, with the account selector on its default
ExpensesRender ==
  /\ PageHasData
  /\ \E range \in DateRanges :
       LET df == processed_data.rows
           all_accounts == { df[k].Account : k \in 1..Len(df) }
           all_categories == { df[k].Category : k \in 1..Len(df) }
       IN \E selected_categories \in SUBSET all_categories :
            ex' = Expenses(df, range[1], range[2], all_accounts,
                           selected_categories)
  /\ UNCHANGED <<ov, ov_prev>>
  /\ RenderFrame

\* the subcategories of the Expense and Stash rows, offered by the Stashes
\* page as the options of its goal editor
all_expense_subcategories(frame) ==
  { frame.rows[k].Subcategory :
      k \in { j \in 1..Len(frame.rows) :
                frame.rows[j].Type \in {Text(T_Expense), Text(T_Stash)} } }

\* emoji_options of the Stashes page, by name
emoji_options_editor ==
  <<"bank", "money_bag", "airplane", "car", "house", "graduation_cap",
    "gift", "laptop">>

\* "Save Stash Definitions" on the Stashes page: the selection and the goal
\* amounts of the editor replace the two dicts; the emoji selectors are
\* left on the recalled values
SaveStashDefinitions ==
  /\ PageHasData
  /\ all_expense_subcategories(processed_data) # {}
  /\ DOMAIN stash_goals \subseteq all_expense_subcategories(processed_data)
  /\ \A k \in DOMAIN stash_emojis :
       \E i \in 1..Len(emoji_options_editor) :
         emoji_options_editor[i] = stash_emojis[k]
  /\ \E selected_stashes \in SUBSET all_expense_subcategories(processed_data) :
       \E temp_goals \in [selected_stashes -> GoalInputs] :
         /\ stash_goals' = temp_goals
         /\ stash_emojis' =
              [k \in selected_stashes |->
                 get(stash_emojis, k, emoji_options_editor[1])]
  /\ UNCHANGED <<raw_data, processed_data, auto_processed, invalid_rows,
                 mapping, removed_rows, notice, filter_cat, filter_type,
                 edited_df, edits, saves>>
  /\ UNCHANGED otherPages

\* a session whose canonical table carries the columns the analysis pages
\* read
InitAnalysis ==
  /\ raw_data = NoRaw
  /\ processed_data \in AnalysisTables
  /\ auto_processed = "absent"
  /\ invalid_rows = Absent
  /\ mapping = NoMapping
  /\ removed_rows = Absent
  /\ notice = "none"
  /\ filter_cat = T_All
  /\ filter_type = T_All
  /\ edited_df = Absent
  /\ edits = 0
  /\ saves = 0
  /\ stash_goals = EmptyDict
  /\ stash_emojis = EmptyDict
  /\ OtherPagesInit

\* goal edits on the Stashes page and renders of the Overview page
NextAnalysis ==
  \/ SaveStashDefinitions
  \/ OverviewRender

SpecAnalysis == InitAnalysis /\ [][NextAnalysis]_vars

\* the same with renders of the Expenses page
NextPages ==
  \/ SaveStashDefinitions
  \/ OverviewRender
  \/ ExpensesRender

SpecPages == InitAnalysis /\ [][NextPages]_vars

\* ------------------------------------------------------ goal projection
\* calculate_projection_string of the Stashes page.  Amounts and goals are
\* whole currency units and the ceiling of remaining / (total / num_months)
\* is computed exactly, as a quotient of integers; on the contributions and
\* goals explored the double-precision quotient has the same ceiling.

MAXYEAR == 9999      \* datetime.MAXYEAR
MaxCInt == 2147483647

\* all_time_df['Date'].min().date() and .max().date()
MinDate(df) ==
  LET ds == { df[k].Date[2] : k \in 1..Len(df) }
  IN CHOOSE d \in ds : \A e \in ds : DateLE(d, e)
MaxDate(df) ==
  LET ds == { df[k].Date[2] : k \in 1..Len(df) }
  IN CHOOSE d \in ds : \A e \in ds : DateLE(e, d)

\* (last.year - first.year) * 12 + (last.month - first.month) + 1, and 1
\* when that is not positive
num_months(first, last) ==
  LET n == (last[1] - first[1]) * 12 + (last[2] - first[2]) + 1
  IN IF n <= 0 THEN 1 ELSE n

\* the goal test with > in place of >=
goal_met_Strict(total_saved_all_time, goal_amount) ==
  total_saved_all_time > goal_amount

\* total_saved_all_time >= goal_amount
goal_met(total_saved_all_time, goal_amount) ==
  total_saved_all_time >= goal_amount

\* the month count rounded down
months_remaining_Floor(remaining_amount, total, n) ==
  (remaining_amount * n) \div total

\* int(np.ceil(remaining_amount / avg_monthly_rate)) with
\* avg_monthly_rate = total / n > 0
months_remaining(remaining_amount, total, n) ==
  (remaining_amount * n + total - 1) \div total

\* date + relativedelta(months=k), k >= 0: whole years are split off, the
\* month wraps past December, the day is cut to the length of the month
add_months(date, k) ==
  LET years == k \div 12
      m0 == date[2] + (k % 12)
      year == date[1] + years + (IF m0 > 12 THEN 1 ELSE 0)
      month == IF m0 > 12 THEN m0 - 12 ELSE m0
      day == IF DaysIn(year, month) < date[3] THEN DaysIn(year, month)
             ELSE date[3]
  IN <<year, month, day>>

MonthAbbr ==
  <<"Jan", "Feb", "Mar", "Apr", "May", "Jun",
    "Jul", "Aug", "Sep", "Oct", "Nov", "Dec">>

\* strftime('%b %d, %Y'), as <<month name, day, year>>
strftime(date) == <<MonthAbbr[date[2]], date[3], date[1]>>

\* the value of a call: the string returned (kind, and text for the date
\* of "Est. ..."), or the exception that leaves the function, and the two
\* month counts where they were computed
Outcome(kind, text, n, k) ==
  [kind |-> kind, text |-> text, num_months |-> n, months_remaining |-> k]

calculate_projection_string(all_time_df, goal_amount) ==
  IF all_time_df = <<>>
  THEN Outcome("No contributions yet", <<>>, 0, 0)
  ELSE
    LET total_saved_all_time == sum(all_time_df)
        first_contribution_date == MinDate(all_time_df)
        last_contribution_date == MaxDate(all_time_df)
        n == num_months(first_contribution_date, last_contribution_date)
    IN IF goal_met(total_saved_all_time, goal_amount)
       THEN Outcome("Goal Met!", <<>>, 0, 0)
       ELSE IF total_saved_all_time <= 0
       THEN Outcome("Never (at this rate)", <<>>, n, 0)
       ELSE
         LET remaining_amount == goal_amount - total_saved_all_time
             k == months_remaining(remaining_amount, total_saved_all_time, n)
             estimated_date == add_months(last_contribution_date, k)
         IN IF estimated_date[1] <= MAXYEAR
            THEN Outcome("Est.", strftime(estimated_date), n, k)
            ELSE IF estimated_date[1] > MaxCInt
            THEN Outcome("Decades away", <<>>, n, k)
            ELSE Outcome("ValueError", <<>>, n, k)

MaxContribs == 2     \* rows of an all_time_df

\* contributions to one stash, as <<date, amount>>
ContribPool ==
  << <<Date(<<2024, 1, 1>>), Num(100)>>,
     <<Date(<<2024, 3, 1>>), Num(300)>>,
     <<Date(<<2024, 1, 31>>), Num(0)>>,
     <<Date(<<2023, 11, 15>>), Num(50)>>,
     <<Date(<<2024, 3, 1>>), Num(1)>>,
     <<Date(<<2024, 2, 10>>), Num(0 - 100)>> >>

\* the frame made of the pool rows whose positions are in S
ContribFrame(S) ==
  LET picked == SelectSeq([i \in 1..Len(ContribPool) |-> i], LAMBDA i : i \in S)
  IN [k \in 1..Len(picked) |->
        [idx |-> picked[k], Date |-> ContribPool[picked[k]][1],
         Amount |-> ContribPool[picked[k]][2]]]

ContribFrames ==
  { ContribFrame(S) : S \in { T \in SUBSET (1..Len(ContribPool)) :
                                Cardinality(T) <= MaxContribs } }

\* goal amounts of "Goal for ..." (min_value=0.0)
ProjectionGoals == {0, 200, 400, 1000, 1000000}

\* a call of calculate_projection_string is about to be made
InitProjection ==
  /\ SessionInit
  /\ ov = NoView
  /\ ov_prev = NoBuckets
  /\ ex = NoView
  /\ pj_df \in ContribFrames
  /\ pj_goal \in ProjectionGoals
  /\ pj_out = NoProjection
  /\ in_df = <<>>
  /\ mom_out = NoView
  /\ ytd_out = NoView

\* the call returns
Project ==
  /\ pj_out = NoProjection
  /\ pj_out' = calculate_projection_string(pj_df, pj_goal)
  /\ UNCHANGED <<raw_data, processed_data, auto_processed, invalid_rows,
                 mapping, removed_rows, notice, filter_cat, filter_type,
                 edited_df, edits, saves, stash_goals, stash_emojis, ov,
                 ov_prev, ex, pj_df, pj_goal, insightVars>>

NextProjection == Project

SpecProjection == InitProjection /\ [][NextProjection]_vars

\* ================================================================ claims
RowsOf(frame) == { frame.rows[k] : k \in 1..Len(frame.rows) }
IdxOf(frame) == { frame.rows[k].idx : k \in 1..Len(frame.rows) }

\* an ingestion (automatic or manual) is the handler that just completed
JustIngested == notice \in {"auto_processed", "processed"}

\* the step is a press of "Save & Update All Changes"
IsSaveStep == saves' = saves + 1

\* a Category or Type filter is active
FilterActive == filter_cat # T_All \/ filter_type # T_All

\* the raw cell and the coerced values of raw row i under the mapping used
RawDateCell(i) == raw_data.rows[i][mapping.date]
RawAmountCell(i) == raw_data.rows[i][mapping.amount]
CoercedDate(i) == to_datetime(RawDateCell(i))
CoercedAmount(i) == CleanAmount(RawAmountCell(i))

\* C1 (as claimed): a save made while a Category and/or Type filter is
\* active leaves every canonical row that does not match the filter in the
\* canonical table, with all fields unchanged.
C1_SaveKeepsRowsOutsideFilter ==
  [][ (IsSaveStep /\ FilterActive) =>
        \A r \in RowsOf(processed_data) :
          ~MatchesFilter(r, filter_cat, filter_type) =>
            r \in RowsOf(processed_data') ]_vars

\* C2 (as claimed): after a save the canonical table has as many rows as
\* there were rows outside the filter plus rows in the edited view.
C2_SaveRowCount ==
  [][ IsSaveStep =>
        Len(processed_data'.rows) =
          Cardinality({ k \in 1..Len(processed_data.rows) :
                          ~MatchesFilter(processed_data.rows[k],
                                         filter_cat, filter_type) })
          + Len(edited_df.rows) ]_vars

\* C3 (as claimed): a save is not reported as a plain success while it
\* leaves a row with a null Date or a null Amount in the canonical table.
C3_SaveSurfacesInvalidRows ==
  notice = "saved" =>
    \A r \in RowsOf(processed_data) : ~isna(r.Date) /\ ~isna(r.Amount)

\* C4 (as claimed): in every reachable session state every stored Amount
\* is >= 0.
C4_AmountNeverNegative ==
  processed_data.present =>
    \A r \in RowsOf(processed_data) : IsNum(r.Amount) => r.Amount[2] >= 0

\* C5: right after an ingestion, automatic or manual, the canonical table
\* has no null Date, no null Amount, and every Amount is >= 0.
C5_IngestedTableClean ==
  JustIngested =>
    /\ processed_data.present
    /\ \A r \in RowsOf(processed_data) :
         IsDate(r.Date) /\ IsNum(r.Amount) /\ r.Amount[2] >= 0

\* C5 witness: a manual ingestion kept a row whose raw amount is negative
\* and dropped another row.
C5_Witness ==
  /\ notice = "processed"
  /\ \E r \in RowsOf(processed_data) :
       IsNum(CoercedAmount(r.idx)) /\ CoercedAmount(r.idx)[2] < 0
  /\ Len(removed_rows.rows) > 0

\* C6: cleaning partitions the raw rows: a raw row is among the rejected
\* rows iff its coerced Date or its coerced Amount is null, otherwise it is
\* in the canonical table; |canonical| + |rejected| = |raw|.
C6_CleaningPartitions ==
  JustIngested =>
    /\ \A i \in 1..Len(raw_data.rows) :
         /\ i \in IdxOf(removed_rows) <=>
              (isna(CoercedDate(i)) \/ isna(CoercedAmount(i)))
         /\ i \in IdxOf(processed_data) <=> i \notin IdxOf(removed_rows)
    /\ IdxOf(processed_data) \cup IdxOf(removed_rows) = 1..Len(raw_data.rows)
    /\ Len(processed_data.rows) + Len(removed_rows.rows) = Len(raw_data.rows)

\* C6 witness: an ingestion rejected one row for its amount only and kept
\* another row of the same batch.
C6_Witness ==
  /\ JustIngested
  /\ Len(processed_data.rows) > 0
  /\ \E r \in RowsOf(removed_rows) :
       ~isna(CoercedDate(r.idx)) /\ isna(CoercedAmount(r.idx))

\* C7 (as claimed): every rejected row is recorded with the raw,
\* pre-coercion Date and Amount cells of its raw row.
C7_RejectedRowsVerbatim ==
  JustIngested =>
    \A r \in RowsOf(removed_rows) :
      r.Date = RawDateCell(r.idx) /\ r.Amount = RawAmountCell(r.idx)

\* C8: with no Type column mapped, every canonical row has Type Income iff
\* its raw amount is >= 0 and Expense iff it is < 0 (zero gives Income), and
\* its stored Amount is the absolute value of the raw amount.
C8_TypeFromSign ==
  (JustIngested /\ mapping.type = 0) =>
    \A r \in RowsOf(processed_data) :
      LET x == CoercedAmount(r.idx)[2]
      IN /\ r.Type = Text(T_Income) <=> x >= 0
         /\ r.Type = Text(T_Expense) <=> x < 0
         /\ r.Amount = Num(IF x < 0 THEN 0 - x ELSE x)

\* C8 witness: an automatic ingestion without a Type column produced an
\* Income row from a raw amount of zero and an Expense row from a negative
\* raw amount.
C8_Witness ==
  /\ notice = "auto_processed"
  /\ mapping.type = 0
  /\ \E r \in RowsOf(processed_data) :
       CoercedAmount(r.idx) = Num(0) /\ r.Type = Text(T_Income)
  /\ \E r \in RowsOf(processed_data) :
       CoercedAmount(r.idx)[2] < 0 /\ r.Type = Text(T_Expense)

\* C9 (as claimed): after an ingestion every canonical row has a
\* Subcategory field, equal to the row's trimmed Category when no
\* Subcategory column is mapped.
C9_SubcategoryPresent ==
  JustIngested =>
    /\ "Subcategory" \in processed_data.cols
    /\ \A r \in RowsOf(processed_data) : r.Subcategory = r.Category

\* C10: with a Type column mapped, a canonical row whose Type cell is
\* missing has Type "Expense" and every other row keeps its Type cell,
\* whatever the sign of its amount.
C10_MappedTypeKept ==
  (JustIngested /\ mapping.type # 0) =>
    \A r \in RowsOf(processed_data) :
      LET cell == raw_data.rows[r.idx][mapping.type]
      IN r.Type = (IF cell = NaN THEN Text(T_Expense) ELSE cell)

\* C10 witness: with a Type column mapped, a row with a missing Type cell
\* and a non-negative raw amount was stored as Expense next to a row that
\* kept the Type "Income" of its cell.
C10_Witness ==
  /\ JustIngested
  /\ mapping.type # 0
  /\ \E r \in RowsOf(processed_data) :
       /\ raw_data.rows[r.idx][mapping.type] = NaN
       /\ CoercedAmount(r.idx)[2] >= 0
       /\ r.Type = Text(T_Expense)
  /\ \E r \in RowsOf(processed_data) :
       raw_data.rows[r.idx][mapping.type] = Text(T_Income) /\ r.Type = Text(T_Income)

\* C11: after an ingestion every canonical row has a non-null Account:
\* "Default Account" when no Account column is mapped or the row's Account
\* cell is missing, the row's own Account cell otherwise.
C11_AccountDefaulted ==
  JustIngested =>
    \A r \in RowsOf(processed_data) :
      /\ ~isna(r.Account)
      /\ r.Account =
           (IF mapping.account = 0 THEN Text(T_DefaultAccount)
            ELSE IF raw_data.rows[r.idx][mapping.account] = NaN
                 THEN Text(T_DefaultAccount)
                 ELSE raw_data.rows[r.idx][mapping.account])

\* C11 witness: an ingestion with an Account column mapped stored the
\* sentinel for a row with a missing Account cell and kept the cell of
\* another row.
C11_Witness ==
  /\ JustIngested
  /\ mapping.account # 0
  /\ \E r \in RowsOf(processed_data) :
       /\ raw_data.rows[r.idx][mapping.account] = NaN
       /\ r.Account = Text(T_DefaultAccount)
  /\ \E r \in RowsOf(processed_data) : r.Account = K_Bank

\* every required header has an exact match after lower-casing and stripping
RequiredHeadersMatch(raw) ==
  \A name \in {T_date, T_amount, T_category} :
    \E i \in 1..Len(raw.columns) : strip(lower(raw.columns[i])) = name

\* the manual mapping tools are rendered
ManualToolsShown == raw_data.present /\ auto_processed # "absent" /\ PageRenders

\* the step is the automatic processing attempt
IsAutoAttempt == auto_processed = "absent" /\ auto_processed' # "absent"

\* C12: automatic mapping is all-or-nothing.  When a required header has no
\* exact match the attempt creates no canonical table, records no rejected
\* rows, leaves auto_processed False and the manual tools are offered; when
\* all three match a canonical table is produced.
C12_AutoAllOrNothing ==
  [][ IsAutoAttempt =>
        IF RequiredHeadersMatch(raw_data)
        THEN processed_data'.present /\ auto_processed' = "True"
        ELSE /\ ~processed_data'.present
             /\ invalid_rows' = invalid_rows
             /\ auto_processed' = "False"
             /\ ManualToolsShown' ]_vars

\* C12 witness: an automatic attempt on a raw table without a header named
\* date ended without a canonical table and with the manual tools offered.
C12_Witness ==
  /\ notice = "map_manually"
  /\ ~RequiredHeadersMatch(raw_data)
  /\ auto_processed = "False"
  /\ ~processed_data.present
  /\ ManualToolsShown

\* C17 (as claimed): goal definitions that are not empty imply that a
\* canonical table exists.
C17_GoalsOnlyWithTable ==
  (DOMAIN stash_goals # {} \/ DOMAIN stash_emojis # {}) => processed_data.present

\* the step is a load attempt that failed
IsFailedLoad == notice' = "load_failed"

\* C18: a failed load leaves raw_data, the canonical table, auto_processed,
\* the rejected rows and the goal definitions exactly as they were.
C18_FailedLoadChangesNothing ==
  [][ IsFailedLoad =>
        UNCHANGED <<raw_data, processed_data, auto_processed, invalid_rows,
                    stash_goals, stash_emojis>> ]_vars

\* C18 witness: a load failed in a session that held a canonical table and
\* goal definitions, and both are still there.
C18_Witness ==
  /\ notice = "load_failed"
  /\ raw_data.present
  /\ processed_data.present
  /\ DOMAIN stash_goals # {}

\* rows of the frame the last Overview render classified
OvRows == { ov.filtered_df[k] : k \in 1..Len(ov.filtered_df) }

RecognizedTypes == {Text(T_Income), Text(T_Expense), Text(T_Stash)}

\* C13: the Income, Expense and Stash buckets of a render are pairwise
\* disjoint, a row is in some bucket iff its Type is Income, Expense or
\* Stash, and a row of any other Type adds nothing to the three totals or
\* to the columns behind the cumulative series.
C13_BucketsPartition ==
  ov.shown =>
    /\ ov.income \cap ov.expense = {}
    /\ ov.income \cap ov.stash = {}
    /\ ov.expense \cap ov.stash = {}
    /\ \A r \in OvRows :
         r.idx \in (ov.income \cup ov.expense \cup ov.stash)
           <=> r.Type \in RecognizedTypes
    /\ ov.total_income + ov.total_expenses + ov.total_stashed
         = sum(SelectSeq(ov.filtered_df, LAMBDA r : r.Type \in RecognizedTypes))
    /\ \A i \in 1..Len(ov.time_series_df) :
         LET p == ov.time_series_df[i]
         IN (\E r \in OvRows : r.idx = p.idx /\ r.Type \notin RecognizedTypes)
              => p.Income = 0 /\ p.Expense = 0 /\ p.Stash = 0

\* C13 witness: a render classified a frame that holds a row of an
\* unrecognized Type next to an Expense row turned Stash by a goal.
C13_Witness ==
  /\ ov.shown
  /\ \E r \in OvRows : r.Type \notin RecognizedTypes /\ AmountOf(r) > 0
  /\ \E r \in OvRows : r.Type = Text(T_Expense) /\ r.idx \in ov.stash

\* the step is a render of a page, not an edit of the goal definitions
IsRenderStep == stash_goals' = stash_goals /\ stash_emojis' = stash_emojis

\* every canonical row keeps its stored Type and Amount over the step
StoredTypeAmountKept ==
  /\ Len(processed_data'.rows) = Len(processed_data.rows)
  /\ \A k \in 1..Len(processed_data.rows) :
       /\ processed_data'.rows[k].idx = processed_data.rows[k].idx
       /\ processed_data'.rows[k].Type = processed_data.rows[k].Type
       /\ processed_data'.rows[k].Amount = processed_data.rows[k].Amount

\* C14: on the query that follows a goal edit every Expense-typed row whose
\* Subcategory is a goal key is in the Stash bucket and not in the Expense
\* bucket, every other Expense-typed row is in the Expense bucket and not in
\* the Stash bucket, and neither the goal edit nor the query changes the
\* stored Type or Amount of a canonical row.
C14_GoalEditReclassifies ==
  [][ /\ StoredTypeAmountKept
      /\ (IsRenderStep /\ ov'.shown) =>
           \A k \in 1..Len(ov'.filtered_df) :
             LET r == ov'.filtered_df[k]
             IN r.Type = Text(T_Expense) =>
                  IF r.Subcategory \in DOMAIN stash_goals
                  THEN r.idx \in ov'.stash /\ r.idx \notin ov'.expense
                  ELSE r.idx \in ov'.expense /\ r.idx \notin ov'.stash ]_vars

\* C14 witness: between two queries the goals were edited, and one
\* Expense-typed row went from the Expense bucket to the Stash bucket while
\* another went from the Stash bucket back to the Expense bucket.
C14_Witness ==
  /\ ov.shown
  /\ ov_prev.shown
  /\ \E r \in OvRows :
       r.Type = Text(T_Expense) /\ r.idx \in ov_prev.expense /\ r.idx \in ov.stash
  /\ \E r \in OvRows :
       r.Type = Text(T_Expense) /\ r.idx \in ov_prev.stash /\ r.idx \in ov.expense

\* the Overview and the Expenses page were rendered with the same date
\* range, accounts and categories, and both show an expense total
SameFilters ==
  /\ ov.shown
  /\ ex.shown
  /\ ex.has_total
  /\ ov.start_date = ex.start_date
  /\ ov.end_date = ex.end_date
  /\ ov.selected_accounts = ex.selected_accounts
  /\ ov.selected_categories = ex.selected_categories
  /\ ov.stash_subcategories = DOMAIN stash_goals

\* C15 (as claimed): under the same table, filters and goal definitions
\* the Overview page and the Expenses page show the same expense total, and
\* no row counted as Expense on the Expenses page is counted as Stash on
\* the Overview page.
C15_PagesAgreeOnExpense ==
  SameFilters =>
    /\ ex.total_expenses = ov.total_expenses
    /\ ex.expense \cap ov.stash = {}

\* C16: Net Savings is Income total + Stash total - Expense total and
\* equals the last value of the Cumulative Total Savings series of the same
\* render.
C16_NetSavingsIsLastCumulative ==
  ov.shown =>
    /\ ov.net_savings = ov.total_income + ov.total_stashed - ov.total_expenses
    /\ ov.net_savings =
         sum(SelectSeq(ov.filtered_df, LAMBDA r : r.idx \in ov.income))
         + sum(SelectSeq(ov.filtered_df, LAMBDA r : r.idx \in ov.stash))
         - sum(SelectSeq(ov.filtered_df, LAMBDA r : r.idx \in ov.expense))
    /\ ov.net_savings =
         ov.time_series_df[Len(ov.time_series_df)].Cumulative_Total_Savings

\* C16 witness: a render over an Expense row and an Expense row turned
\* Stash by a goal, with a Net Savings that is not zero.
C16_Witness ==
  /\ ov.shown
  /\ ov.expense # {}
  /\ \E r \in OvRows : r.Type = Text(T_Expense) /\ r.idx \in ov.stash
  /\ ov.net_savings # 0
  /\ Len(ov.time_series_df) = 2

\* the inputs of the call in the terms of the claims
PjTotal == sum(pj_df)
PjFirst == MinDate(pj_df)
PjLast == MaxDate(pj_df)
PjElapsed == (PjLast[1] * 12 + PjLast[2]) - (PjFirst[1] * 12 + PjFirst[2]) + 1
Returned == pj_out.kind # "none"

\* the least whole number of months k with k * total / elapsed >= goal - total
CeilingMonths ==
  LET num == (pj_goal - PjTotal) * PjElapsed
  IN IF num % PjTotal = 0 THEN num \div PjTotal ELSE (num \div PjTotal) + 1

\* the calendar date k months after a date: same day of the month, or the
\* last day of the target month when that is shorter
MonthsLater(date, k) ==
  LET t == date[1] * 12 + (date[2] - 1) + k
      y == t \div 12
      m == (t % 12) + 1
  IN <<y, m, IF date[3] > DaysIn(y, m) THEN DaysIn(y, m) ELSE date[3]>>

\* the first three outcomes of the decision order, and the elapsed months
DecisionOrderHead ==
  /\ pj_df = <<>> => pj_out.kind = "No contributions yet"
  /\ (pj_df # <<>> /\ PjTotal >= pj_goal) => pj_out.kind = "Goal Met!"
  /\ (pj_df # <<>> /\ PjTotal < pj_goal /\ PjTotal <= 0)
       => pj_out.kind = "Never (at this rate)"
  /\ (pj_df # <<>> /\ PjTotal < pj_goal)
       => pj_out.num_months = PjElapsed /\ pj_out.num_months >= 1

\* the call got as far as projecting a date
ProjectsDate == pj_df # <<>> /\ PjTotal < pj_goal /\ PjTotal > 0

\* C19 (as claimed): no contributions gives "No contributions yet";
\* otherwise a total at or above the goal gives "Goal Met!"; otherwise a
\* rate at or below zero gives "Never (at this rate)"; otherwise the result
\* is an estimated date; elapsed months is last month - first month + 1 and
\* at least 1.
C19_DecisionOrder ==
  Returned =>
    /\ DecisionOrderHead
    /\ ProjectsDate => pj_out.kind = "Est."

\* C19 (amended): the same decision order, where the last case gives an
\* estimated date whenever the projected date has a year up to 9999.
C19_DecisionOrderRepresentable ==
  Returned =>
    /\ DecisionOrderHead
    /\ (ProjectsDate /\ MonthsLater(PjLast, CeilingMonths)[1] <= MAXYEAR)
         => pj_out.kind = "Est."
    /\ pj_out.kind = "Est." => ProjectsDate

\* C19 witness: contributions from November to March, five elapsed months,
\* fell short of the goal at a positive rate and a date was estimated.
C19_Witness ==
  /\ Returned
  /\ ProjectsDate
  /\ PjElapsed = 5
  /\ pj_out.num_months = 5
  /\ pj_out.kind = "Est."

\* C20: when a date is projected, months remaining is the ceiling of
\* (goal - total) / (total / elapsed months) and the date is the last
\* contribution date advanced by that many calendar months; goal 1000 with
\* 100 on Jan 1 and 300 on Mar 1 gives 3 elapsed months, 5 months remaining
\* and Aug 1 of the same year.
C20_ProjectedDate ==
  (Returned /\ pj_out.kind = "Est.") =>
    /\ pj_out.months_remaining = CeilingMonths
    /\ pj_out.text = strftime(MonthsLater(PjLast, CeilingMonths))
    /\ (pj_goal = 1000 /\ PjTotal = 400
          /\ PjFirst = <<2024, 1, 1>> /\ PjLast = <<2024, 3, 1>>)
         => /\ pj_out.num_months = 3
            /\ pj_out.months_remaining = 5
            /\ pj_out.text = <<"Aug", 1, 2024>>

\* C20 witness: the example of the claim was projected.
C20_Witness ==
  /\ pj_out.kind = "Est."
  /\ pj_goal = 1000
  /\ PjTotal = 400
  /\ PjFirst = <<2024, 1, 1>>
  /\ PjLast = <<2024, 3, 1>>
  /\ pj_out.text = <<"Aug", 1, 2024>>

\* C21 (as claimed): the call never ends in an error, and a projected date
\* with a year past 9999 gives "Decades away".
C21_ProjectionNeverRaises ==
  Returned =>
    /\ pj_out.kind \in {"No contributions yet", "Goal Met!",
                        "Never (at this rate)", "Est.", "Decades away"}
    /\ (ProjectsDate /\ MonthsLater(PjLast, CeilingMonths)[1] > MAXYEAR)
         => pj_out.kind = "Decades away"

\* ------------------------------------------------- automated insights
\* The "Automated Insights" sections of the Expenses and Income pages.
\* Their quotients are floats; a finite one is kept as the pair of its
\* numerator and denominator, float('inf') as Inf.

Ratio(n, d) == <<"ratio", n, d>>
Inf == <<"inf">>

\* equality and order of two finite quotients with positive denominators
RatioEq(a, b) == a[2] * b[3] = b[2] * a[3]
RatioGT(a, n) == a[2] > n * a[3]
RatioLT(a, n) == a[2] < n * a[3]

\* a < b for datetime.date values
DateLT(a, b) == DateLE(a, b) /\ a # b

\* Date.dt.to_period('M')
to_period_M(d) == <<d[1], d[2]>>

\* the month before a month
PrevPeriod(p) == IF p[2] = 1 THEN <<p[1] - 1, 12>> ELSE <<p[1], p[2] - 1>>

\* the rows of a frame dated in a month
InPeriod(df, p) ==
  SelectSeq(df, LAMBDA r : IsDate(r.Date) /\ to_period_M(r.Date[2]) = p)

\* sorted(df['Date'].dt.to_period('M').unique()), as a set
available_months(df) ==
  { to_period_M(df[k].Date[2]) : k \in { j \in 1..Len(df) : IsDate(df[j].Date) } }

\* the sum of the first month of the selected month's year
calculate_ytd_comparison(df, group_col, item_name, selected_month_start) ==
  LET first_month_period == <<selected_month_start[1], 1>>
      first_month_df ==
        SelectSeq(InPeriod(df, first_month_period),
                  LAMBDA r : r[group_col] = item_name)
  IN sum(first_month_df)

\* the year-to-date total divided by the months elapsed since January
calculate_ytd_average_income_Elapsed(df, group_col, item_name, selected_month_start) ==
  LET year_start == <<selected_month_start[1], 1, 1>>
      ytd_df ==
        SelectSeq(df, LAMBDA r :
          /\ IsDate(r.Date)
          /\ DateLT(r.Date[2], selected_month_start)
          /\ DateLE(year_start, r.Date[2])
          /\ r[group_col] = item_name)
  IN IF ytd_df = <<>> THEN Ratio(0, 1)
     ELSE Ratio(sum(ytd_df), selected_month_start[2] - 1)

\* the year-to-date total divided by the number of months with a row
calculate_ytd_average_income(df, group_col, item_name, selected_month_start) ==
  LET year_start == <<selected_month_start[1], 1, 1>>
      ytd_df ==
        SelectSeq(df, LAMBDA r :
          /\ IsDate(r.Date)
          /\ DateLT(r.Date[2], selected_month_start)
          /\ DateLE(year_start, r.Date[2])
          /\ r[group_col] = item_name)
      months_with_income ==
        Cardinality({ to_period_M(ytd_df[k].Date[2]) : k \in 1..Len(ytd_df) })
  IN IF ytd_df = <<>> THEN Ratio(0, 1)
     ELSE IF months_with_income = 0 THEN Ratio(0, 1)
     ELSE Ratio(sum(ytd_df), months_with_income)

\* (this - basis) / basis * 100 if basis > 0 else np.inf, for a basis
\* that is itself a quotient
PercentOver(this_month_income, basis) ==
  IF basis[2] > 0
  THEN Ratio((this_month_income * basis[3] - basis[2]) * 100, basis[2])
  ELSE Inf

\* the insight rows of one tab of the Income page, by item
IncomeInsightRows(df_income, this_month_df, group_col, selected_month_start) ==
  LET items == { this_month_df[k][group_col] : k \in 1..Len(this_month_df) }
  IN [item \in items |->
        LET this_month_income ==
              sum(SelectSeq(this_month_df, LAMBDA r : r[group_col] = item))
            first_month_income ==
              calculate_ytd_comparison(df_income, group_col, item,
                                       selected_month_start)
            ytd_avg_income ==
              calculate_ytd_average_income(df_income, group_col, item,
                                           selected_month_start)
        IN [this_month |-> this_month_income,
            first_month |-> first_month_income,
            ytd_avg |-> ytd_avg_income,
            vs_first_month |->
              PercentOver(this_month_income, Ratio(first_month_income, 1)),
            vs_ytd_avg |-> PercentOver(this_month_income, ytd_avg_income)]]

\* the insights of the Income page for a selected month, all filters on
\* their defaults
IncomeInsights(df, selected_month_period) ==
  LET df_income == SelectSeq(df, income_mask)
      selected_month_start ==
        <<selected_month_period[1], selected_month_period[2], 1>>
      this_month_df == InPeriod(df_income, selected_month_period)
  IN [shown |-> TRUE,
      month |-> selected_month_period,
      by_category |->
        IncomeInsightRows(df_income, this_month_df, "Category",
                          selected_month_start),
      by_subcategory |->
        IncomeInsightRows(df_income, this_month_df, "Subcategory",
                          selected_month_start)]

\* the month-over-month comparison of the Expenses page for a selected
\* month: Current and Previous by Category, and 'Change (%)' after the
\* replacement of the infinities.  The frames hold at most three
\* categories, so head(3) keeps every row.
ExpenseInsights(expense_df_for_insights, selected_month) ==
  LET current_month_df == InPeriod(expense_df_for_insights, selected_month)
      last_month_df ==
        InPeriod(expense_df_for_insights, PrevPeriod(selected_month))
      spend(rows, c) == sum(SelectSeq(rows, LAMBDA r : r.Category = c))
      index == { current_month_df[k].Category : k \in 1..Len(current_month_df) }
               \cup { last_month_df[k].Category : k \in 1..Len(last_month_df) }
      kept == { c \in index : spend(last_month_df, c) > 0
                              \/ spend(current_month_df, c) > 0 }
      divided(cur, prev) ==
        IF prev = 0 THEN Inf ELSE Ratio((cur - prev) * 100, prev)
      replaced(x) == IF x = Inf THEN Ratio(100, 1) ELSE x
      comparison ==
        [c \in kept |->
           [Current |-> spend(current_month_df, c),
            Previous |-> spend(last_month_df, c),
            Change |-> replaced(divided(spend(current_month_df, c),
                                        spend(last_month_df, c)))]]
      top_increases == { c \in kept : RatioGT(comparison[c].Change, 10) }
      top_decreases == { c \in kept : RatioLT(comparison[c].Change, 0 - 10) }
  IN [shown |-> TRUE,
      month |-> selected_month,
      comparison |-> comparison,
      top_increases |-> top_increases,
      top_decreases |-> top_decreases,
      new_spending |-> { c \in top_increases : comparison[c].Previous = 0 }]

MaxInsightRows == 3     \* rows of a frame read by the insights

S_Base == Text(<<"B","a","s","e">>)
S_Bonus == Text(<<"B","o","n","u","s">>)

\* rows as <<date, Type, Category, Subcategory, Amount>>
InsightPool ==
  << <<Date(<<2024, 1, 10>>), Text(T_Income), C_Pay, S_Base, Num(100)>>,
     <<Date(<<2024, 3, 5>>), Text(T_Income), C_Pay, S_Base, Num(300)>>,
     <<Date(<<2024, 4, 2>>), Text(T_Income), C_Pay, S_Base, Num(50)>>,
     <<Date(<<2024, 4, 20>>), Text(T_Income), C_Pay, S_Bonus, Num(70)>>,
     <<Date(<<2024, 3, 20>>), Text(T_Expense), C_Food, S_Meal, Num(40)>>,
     <<Date(<<2024, 4, 9>>), Text(T_Expense), C_Food, S_Meal, Num(80)>>,
     <<Date(<<2024, 4, 15>>), Text(T_Expense), C_Rent, S_Trip, Num(60)>>,
     <<Date(<<2023, 12, 10>>), Text(T_Income), C_Pay, S_Base, Num(500)>> >>

InsightFrame(S) ==
  LET picked == SelectSeq([i \in 1..Len(InsightPool) |-> i], LAMBDA i : i \in S)
  IN [k \in 1..Len(picked) |->
        [idx |-> picked[k],
         Date |-> InsightPool[picked[k]][1],
         Type |-> InsightPool[picked[k]][2],
         Category |-> InsightPool[picked[k]][3],
         Subcategory |-> InsightPool[picked[k]][4],
         Amount |-> InsightPool[picked[k]][5]]]

InsightFrames ==
  { InsightFrame(S) : S \in { T \in SUBSET (1..Len(InsightPool)) :
                                Cardinality(T) <= MaxInsightRows } }

\* a session whose pages are about to draw their insights
InitInsights ==
  /\ SessionInit
  /\ ov = NoView
  /\ ov_prev = NoBuckets
  /\ ex = NoView
  /\ pj_df = <<>>
  /\ pj_goal = 0
  /\ pj_out = NoProjection
  /\ in_df \in InsightFrames
  /\ mom_out = NoView
  /\ ytd_out = NoView

\* the Expenses page draws its insights for a month of the selector
ExpenseInsightsRender ==
  LET expense_df_for_insights ==
        SelectSeq(in_df, LAMBDA r : r.Type = Text(T_Expense))
  IN /\ expense_df_for_insights # <<>>
     /\ \E selected_month \in available_months(expense_df_for_insights) :
          mom_out' = ExpenseInsights(expense_df_for_insights, selected_month)
     /\ UNCHANGED <<raw_data, processed_data, auto_processed, invalid_rows,
                    mapping, removed_rows, notice, filter_cat, filter_type,
                    edited_df, edits, saves, stash_goals, stash_emojis, ov,
                    ov_prev, ex, pj_df, pj_goal, pj_out, in_df, ytd_out>>

\* the Income page draws its insights for a month of the selector
IncomeInsightsRender ==
  /\ \E selected_month_period \in available_months(SelectSeq(in_df, income_mask)) :
       ytd_out' = IncomeInsights(in_df, selected_month_period)
  /\ UNCHANGED <<raw_data, processed_data, auto_processed, invalid_rows,
                 mapping, removed_rows, notice, filter_cat, filter_type,
                 edited_df, edits, saves, stash_goals, stash_emojis, ov,
                 ov_prev, ex, pj_df, pj_goal, pj_out, in_df, mom_out>>

NextInsights ==
  \/ ExpenseInsightsRender
  \/ IncomeInsightsRender

SpecInsights == InitInsights /\ [][NextInsights]_vars

\* the rows of in_df of a group that count for the year-to-date average of
\* a month: same year, an earlier month
YtdRows(group_col, item, month) ==
  SelectSeq(in_df, LAMBDA r :
    /\ r.Type = Text(T_Income)
    /\ r[group_col] = item
    /\ r.Date[2][1] = month[1]
    /\ r.Date[2][2] < month[2])

YtdActiveMonths(group_col, item, month) ==
  { m \in 1..(month[2] - 1) :
      \E k \in 1..Len(in_df) : /\ in_df[k].Type = Text(T_Income)
                               /\ in_df[k][group_col] = item
                               /\ in_df[k].Date[2][1] = month[1]
                               /\ in_df[k].Date[2][2] = m }

YtdAverageIs(avg, group_col, item, month) ==
  LET active == Cardinality(YtdActiveMonths(group_col, item, month))
  IN IF active = 0
     THEN RatioEq(avg, Ratio(0, 1))
     ELSE avg[2] * active = sum(YtdRows(group_col, item, month)) * avg[3]

\* C22: the year-to-date average of every group of the selected month is
\* the sum of the group's amounts from January up to, not including, the
\* selected month, divided by the number of those months in which the
\* group has a row, and 0 when it has none; 100 in January and 300 in
\* March give 200 for April.
C22_YtdAverageOverActiveMonths ==
  ytd_out.shown =>
    /\ \A item \in DOMAIN ytd_out.by_category :
         YtdAverageIs(ytd_out.by_category[item].ytd_avg, "Category", item,
                      ytd_out.month)
    /\ \A item \in DOMAIN ytd_out.by_subcategory :
         YtdAverageIs(ytd_out.by_subcategory[item].ytd_avg, "Subcategory",
                      item, ytd_out.month)
    /\ ({1, 2, 3} \subseteq { in_df[k].idx : k \in 1..Len(in_df) }
        /\ Len(in_df) = 3 /\ ytd_out.month = <<2024, 4>>)
         => RatioEq(ytd_out.by_category[C_Pay].ytd_avg, Ratio(200, 1))

C22_Witness ==
  /\ ytd_out.shown
  /\ ytd_out.month = <<2024, 4>>
  /\ { in_df[k].idx : k \in 1..Len(in_df) } = {1, 2, 3}
  /\ ytd_out.by_category[C_Pay].ytd_avg = Ratio(400, 2)

\* C23 (as claimed): on both pages a group with a zero basis and a
\* positive current value has an infinite change, never a finite one.
C23_ZeroBasisIsInfinite ==
  /\ mom_out.shown =>
       \A c \in DOMAIN mom_out.comparison :
         (mom_out.comparison[c].Previous = 0
          /\ mom_out.comparison[c].Current > 0)
           => mom_out.comparison[c].Change = Inf
  /\ ytd_out.shown =>
       \A item \in DOMAIN ytd_out.by_category :
         LET row == ytd_out.by_category[item]
         IN /\ (row.first_month = 0 /\ row.this_month > 0)
                 => row.vs_first_month = Inf
            /\ (row.ytd_avg[2] = 0 /\ row.this_month > 0)
                 => row.vs_ytd_avg = Inf

\* ------------------------------------------- cleaning a canonical table
\* a canonical table handed to the cleaner as its raw table, under the
\* canonical headers
AsRaw(frame) ==
  MakeRaw(<<H_Date, H_Amount, H_Category, H_Type, H_Account>>,
          [k \in 1..Len(frame.rows) |->
             <<frame.rows[k].Date, frame.rows[k].Amount,
               frame.rows[k].Category, frame.rows[k].Type,
               frame.rows[k].Account>>])

\* two tables hold the same rows in the same order with the same values
\* of the five canonical fields
SameCells(a, b) ==
  /\ Len(a.rows) = Len(b.rows)
  /\ \A k \in 1..Len(a.rows) :
       \A c \in CanonicalCols : a.rows[k][c] = b.rows[k][c]

\* C24: the cleaner run on a canonical table it produced, through the
\* automatic path or through the manual path with every field mapped to
\* its own column, rejects no row and returns the same table.
C24_CleaningIdempotent ==
  processed_data.present =>
    LET raw == AsRaw(processed_data)
        m == AutoMapping(raw)
    IN /\ AutoFound(m)
       /\ m.type # 0 /\ m.account # 0
       /\ AutoInvalid(raw, m).rows = <<>>
       /\ SameCells(AutoProcessed(raw, m), processed_data)
       /\ ManualInvalid(raw, m).rows = <<>>
       /\ SameCells(ManualProcessed(raw, m), processed_data)

C24_Witness ==
  /\ processed_data.present
  /\ Len(processed_data.rows) = 2
  /\ removed_rows.present
  /\ \E k \in 1..2 : processed_data.rows[k].Amount = Num(1200)

\* ------------------------------------- analysis pages on the session table
\* a page gets past its "no data" guard
SessionHasData == processed_data.present /\ processed_data.rows # <<>>

\* a render of the Expenses page on the table the Data Mapping page left
\* in the session, with the account and category selectors on their
\* defaults
ExpensesRenderDefault ==
  /\ SessionHasData
  /\ \E range \in DateRanges :
       LET df == EnsureDatetime(processed_data).rows
       IN ex' = Expenses(df, range[1], range[2],
                         { df[k].Account : k \in 1..Len(df) },
                         { df[k].Category : k \in 1..Len(df) })
  /\ processed_data' = EnsureDatetime(processed_data)
  /\ UNCHANGED <<raw_data, auto_processed, invalid_rows, mapping,
                 removed_rows, notice, filter_cat, filter_type, edited_df,
                 edits, saves, stash_goals, stash_emojis, ov, ov_prev,
                 pj_df, pj_goal, pj_out, insightVars>>

\* the canonical table with a row added in the editor and saved
WithSavedRow(frame, d) ==
  SavedFrame([frame EXCEPT !.rows =
                Append(@, [idx |-> NewIdx(frame, frame), Date |-> d,
                           Amount |-> Num(1), Category |-> C_Food,
                           Type |-> Text(T_Expense), Account |-> NaN])])

\* a session whose raw table went through the automatic path, before or
\* after a save of the editor with one added row
InitRender ==
  /\ \E raw \in { r \in RawTables : AutoFound(AutoMapping(r)) } :
       /\ raw_data = raw
       /\ mapping = AutoMapping(raw)
       /\ invalid_rows = AutoInvalid(raw, AutoMapping(raw))
       /\ \E edited \in BOOLEAN :
            /\ saves = (IF edited THEN 1 ELSE 0)
            /\ IF edited
               THEN \E d \in EditDates :
                      processed_data =
                        WithSavedRow(AutoProcessed(raw, AutoMapping(raw)), d)
               ELSE processed_data = AutoProcessed(raw, AutoMapping(raw))
  /\ auto_processed = "True"
  /\ removed_rows = Absent
  /\ notice = "none"
  /\ filter_cat = T_All
  /\ filter_type = T_All
  /\ edited_df = processed_data
  /\ edits = 0
  /\ stash_goals = EmptyDict
  /\ stash_emojis = EmptyDict
  /\ OtherPagesInit

\* renders of the Expenses page
NextRender == ExpensesRenderDefault

SpecRender == InitRender /\ [][NextRender]_vars

\* the step is a render of an analysis page: the page's view is written
IsPageRender == ex' # ex \/ ov' # ov

\* C25: a render of an analysis page leaves the canonical table of the
\* session as it was: same rows, same order, same field values.
C25_RenderKeepsTable ==
  [][IsPageRender => processed_data' = processed_data]_vars

\* a rendered page over a table with an added row whose Date is missing
\* and with rows that are not in the order of their dates
C25_Witness ==
  /\ ex.shown
  /\ ex.has_total
  /\ Len(processed_data.rows) = 3
  /\ processed_data.rows[3].Date = NaT
  /\ ~DateLE(processed_data.rows[1].Date[2], processed_data.rows[2].Date[2])

\* C26 (as claimed): when an ingestion, automatic or manual, has just
\* completed, the stored rejected rows are the rows that ingestion
\* rejected.
C26_RejectedRowsOfThisIngestion ==
  JustIngested =>
    /\ invalid_rows.present
    /\ IdxOf(invalid_rows) = IdxOf(removed_rows)

\* C27 (as claimed): every key of the goal definitions is the Subcategory
\* of an Expense- or Stash-typed row of the canonical table.
C27_GoalKeysAreSubcategories ==
  \A key \in DOMAIN stash_goals :
    /\ processed_data.present
    /\ "Subcategory" \in processed_data.cols
    /\ \E k \in 1..Len(processed_data.rows) :
         /\ processed_data.rows[k].Type \in {Text(T_Expense), Text(T_Stash)}
         /\ processed_data.rows[k].Subcategory = key

\* C28 (as claimed): whenever auto_processed is True the rejected-row
\* record is defined, so the result notice can be rendered.
C28_RejectedRecordDefined == auto_processed = "True" => invalid_rows.present

\* C29 (as claimed): every stored glyph is an option of the goal editor of
\* the Data Mapping page and of the goal editor of the Stashes page.
C29_GlyphsKnownToBothEditors ==
  \A key \in DOMAIN stash_emojis :
    /\ \E i \in 1..Len(emoji_options) : emoji_options[i] = stash_emojis[key]
    /\ \E i \in 1..Len(emoji_options_editor) :
         emoji_options_editor[i] = stash_emojis[key]

\* the step is a run of the automatic path
IsAutoRun == notice' \in {"auto_processed", "map_manually"}

\* the step is a run of the script that is neither a load, a clear, a
\* manual processing nor a save
IsRerender ==
  /\ notice' \notin {"loaded", "processed", "saved"}
  /\ ~(raw_data.present /\ ~raw_data'.present)

\* C30: once the automatic attempt on the loaded raw table has been made
\* (auto_processed is in the session), no later run of the page makes it
\* again, and a re-render leaves the canonical table and the flag as they
\* are; only a load or a clear brings the attempt back.
C30_AutoAttemptOncePerLoad ==
  [][auto_processed # "absent" =>
       /\ ~IsAutoRun
       /\ IsRerender => /\ processed_data' = processed_data
                        /\ auto_processed' = auto_processed]_vars

\* a re-render after a manual processing that replaced the table of the
\* automatic one
C30_Witness ==
  /\ auto_processed = "True"
  /\ processed_data.present
  /\ mapping # AutoMapping(raw_data)
  /\ DOMAIN stash_goals # {}

====
